---- MODULE Spec2Model ----
(***************************************************************************)
(* Congestion-aware routing and departure-time optimisation                *)
(* (traffic_core: utils, congestion_simulator, ml_predictor,               *)
(* route_planner, smart_planner).                                          *)
(*                                                                         *)
(* Units.  The program computes in binary floating point; the model uses   *)
(* fixed point:                                                            *)
(*   congestion   permille            (0.05 -> 50, 0.95 -> 950)            *)
(*   length       metres                                                   *)
(*   speed        hundredths of km/h  (30 km/h -> 3000, 0.1 m/s -> 36)     *)
(*   time         milliseconds        (a quotient is rounded down to 1 ms) *)
(*   score        hundredths                                               *)
(***************************************************************************)
EXTENDS Integers, Naturals, Sequences, FiniteSets, TLC

VARIABLES G, trip, ml_predictor, bg_thread, plan, call, historical_data, now, workers

vars == <<G, trip, ml_predictor, bg_thread, plan, call, historical_data, now, workers>>

\* the variables of the historical store
hist_vars == <<historical_data, now, workers>>

(***************************************************************************)
(* Bounds of the model.                                                    *)
(***************************************************************************)
\* positions at which a random.uniform(a, b) draw is sampled: a + (b-a)*u/JitterSteps
JitterSteps == 2
\* distinct models a (re)training run can produce
NumModels == 2
\* calls of update_historical_data made one after the other
MaxAppends == 150

(***************************************************************************)
(* Small helpers.                                                          *)
(***************************************************************************)
Max(a, b) == IF a >= b THEN a ELSE b

Min(a, b) == IF a <= b THEN a ELSE b

\* dict.get(key, default)
Get(d, key, default) == IF key \in DOMAIN d THEN d[key] ELSE default

\* F applied to the value of x (x is evaluated once)
Let(x, F(_)) == CHOOSE r \in {F(y) : y \in {x}} : TRUE

\* round(x, n) at a resolution of `unit` model units (halves round up)
Round(x, unit) == ((x + unit \div 2) \div unit) * unit

\* hour=None ("current")
NoHour == 0 - 1

\* max_travel_time absent from the constraints (constraints.get -> None)
NoLimit == 0 - 1

\* a numeric attribute left out of an edge dictionary
NoValue == 0 - 1

\* float('-inf'): below every score
NegInf == 0 - 2000000000

(***************************************************************************)
(* Road categories and their tables (utils.py, congestion_simulator.py).   *)
(***************************************************************************)
RoadCategory ==
    {"motorway", "motorway_link", "trunk", "trunk_link", "primary", "primary_link",
     "secondary", "secondary_link", "tertiary", "tertiary_link", "residential",
     "unclassified", "service"}

\* a category outside the enumeration (OSM has many: track, living_street, ...)
UnknownCategory == "track"

RoadTypes == RoadCategory \cup {UnknownCategory}

\* SPEED_LIMITS.get(road_type, 30), km/h
SPEED_LIMITS(road_type) ==
    CASE road_type = "motorway" -> 90
      [] road_type = "motorway_link" -> 60
      [] road_type = "trunk" -> 80
      [] road_type = "trunk_link" -> 50
      [] road_type = "primary" -> 60
      [] road_type = "primary_link" -> 50
      [] road_type = "secondary" -> 50
      [] road_type = "secondary_link" -> 40
      [] road_type = "tertiary" -> 40
      [] road_type = "tertiary_link" -> 30
      [] road_type = "residential" -> 30
      [] road_type = "unclassified" -> 40
      [] road_type = "service" -> 20
      [] OTHER -> 30

\* DELAY_WEIGHTS.get(road_type, 30), seconds
DELAY_WEIGHTS(road_type) ==
    CASE road_type = "motorway" -> 2
      [] road_type = "motorway_link" -> 5
      [] road_type = "trunk" -> 8
      [] road_type = "trunk_link" -> 10
      [] road_type = "primary" -> 15
      [] road_type = "primary_link" -> 20
      [] road_type = "secondary" -> 25
      [] road_type = "secondary_link" -> 30
      [] road_type = "tertiary" -> 35
      [] road_type = "residential" -> 40
      [] OTHER -> 30

\* CONGESTION_WEIGHTS.get(road_type, 0.5), permille
CONGESTION_WEIGHTS(road_type) ==
    CASE road_type = "motorway" -> 150
      [] road_type = "motorway_link" -> 200
      [] road_type = "trunk" -> 250
      [] road_type = "trunk_link" -> 300
      [] road_type = "primary" -> 350
      [] road_type = "primary_link" -> 400
      [] road_type = "secondary" -> 450
      [] road_type = "secondary_link" -> 500
      [] road_type = "tertiary" -> 550
      [] road_type = "tertiary_link" -> 600
      [] road_type = "residential" -> 650
      [] road_type = "unclassified" -> 500
      [] road_type = "service" -> 700
      [] OTHER -> 500

(***************************************************************************)
(* EdgeCostFunction (utils.py).                                            *)
(***************************************************************************)
\* the congestion step function, in percent of the speed limit
speed_reduction_swapped(congestion) ==
    IF congestion < 300 THEN 100
    ELSE IF congestion < 600 THEN 50
    ELSE IF congestion < 800 THEN 70
    ELSE 30

speed_reduction(congestion) ==
    IF congestion < 300 THEN 100
    ELSE IF congestion < 600 THEN 70
    ELSE IF congestion < 800 THEN 50
    ELSE 30

\* get_realistic_speed: effective speed in hundredths of km/h; the program's
\* final "/ 3.6" (to m/s) is applied where the speed is used
get_realistic_speed(edge_data, congestion) ==
    LET road_type == Get(edge_data, "_road_type", "residential")
        base_speed_kmh == SPEED_LIMITS(road_type)
        effective_speed_kmh == base_speed_kmh * speed_reduction(congestion)
    IN  Max(500, effective_speed_kmh)

\* realistic_weight: travel time of one edge, ms.
\* length / max(0.1 m/s, speed) + delay * (0.5 + congestion)
realistic_weight(u, v, d) ==
    LET length == Get(d, "length", 100)
        congestion == Get(d, "congestion", 500)
        effective_speed == get_realistic_speed(d, congestion)
        road_type == Get(d, "_road_type", "residential")
        intersection_delay == DELAY_WEIGHTS(road_type)
        traffic_light_delay == intersection_delay * (500 + congestion)
    IN  (length * 360000) \div Max(36, effective_speed) + traffic_light_delay

(***************************************************************************)
(* CongestionModel (congestion_simulator.py).                              *)
(***************************************************************************)
\* random.uniform(a, b) sampled at position u of 0..JitterSteps
Uniform(a, b, u) == a + ((b - a) * u) \div JitterSteps

\* the final clamp of get_realistic_congestion
clamp_missing(x) == x

clamp(x) == Max(50, Min(950, x))

\* get_realistic_congestion; u1 and u2 are the positions of the two random draws
get_realistic_congestion(edge_data, hour, day_type, u1, u2) ==
    LET road_type == Get(edge_data, "_road_type", "residential")
        base == CONGESTION_WEIGHTS(road_type)
        bracket ==
            IF hour = NoHour THEN 0
            ELSE IF day_type = "weekday"
            THEN IF 7 <= hour /\ hour <= 9 THEN Uniform(250, 400, u1)
                 ELSE IF 17 <= hour /\ hour <= 19 THEN Uniform(300, 450, u1)
                 ELSE IF 12 <= hour /\ hour <= 14 THEN Uniform(100, 200, u1)
                 ELSE IF 0 <= hour /\ hour <= 5 THEN 0 - Uniform(250, 400, u1)
                 ELSE 0
            ELSE IF 11 <= hour /\ hour <= 16 THEN Uniform(150, 250, u1)
                 ELSE IF 19 <= hour /\ hour <= 22 THEN Uniform(100, 200, u1)
                 ELSE IF 0 <= hour /\ hour <= 6 THEN 0 - Uniform(200, 350, u1)
                 ELSE 0
    IN  clamp(base + bracket + Uniform(0 - 80, 80, u2))

(***************************************************************************)
(* RoadNetwork: a directed multigraph as networkx holds it.                *)
(*   g.id                  = the graph object: "G" is the shared base      *)
(*                           graph, "copy" a copy made of it               *)
(*   g.nodes[n]            = the node's attributes (y = latitude, x = lon) *)
(*   g.adj[<<u, v>>]       = the adjacency entry G[u][v]: the dictionary   *)
(*                           of the parallel edges between u and v         *)
(*   g.adj[<<u, v>>].edges = key -> edge attribute dictionary              *)
(* Edge attributes are a function from attribute name to value, so that an *)
(* attribute may be absent (d.get(name, default)).                         *)
(***************************************************************************)
Node(lat, lon) == [y |-> lat, x |-> lon]

\* an edge as network_loader leaves it: length and _road_type always set
Edge(length, road_type) == ("length" :> length) @@ ("_road_type" :> road_type)

\* an edge that carries a geometry (sequence of (lon, lat) points)
EdgeGeom(length, road_type, geometry) ==
    Edge(length, road_type) @@ ("geometry" :> geometry)

Nodes3 == (1 :> Node(401, 441)) @@ (2 :> Node(402, 442)) @@ (3 :> Node(403, 443))

Nodes4 == Nodes3 @@ (4 :> Node(404, 444))

\* nodes {A=1, B=2, C=3}, the single edge A -> B; C is isolated
GraphSingle ==
    [id |-> "G",
     nodes |-> Nodes3,
     adj |-> (<<1, 2>> :> [edges |-> (0 :> Edge(250, "primary"))])]

\* A -> B -> Z=4: the only path from A to Z runs through a service edge
GraphService ==
    [id |-> "G",
     nodes |-> Nodes4,
     adj |-> (<<1, 2>> :> [edges |-> (0 :> Edge(300, "residential"))])
          @@ (<<2, 4>> :> [edges |-> (0 :> Edge(120, "service"))])]

\* A -> Z directly over a service edge, or A -> B -> Z over residential streets
GraphDetour ==
    [id |-> "G",
     nodes |-> Nodes4,
     adj |-> (<<1, 4>> :> [edges |-> (0 :> Edge(900, "service"))])
          @@ (<<1, 2>> :> [edges |-> (0 :> Edge(200, "residential"))])
          @@ (<<2, 4>> :> [edges |-> (0 :> Edge(200, "tertiary"))])
          @@ (<<4, 1>> :> [edges |-> (0 :> Edge(900, "service"))])]

\* parallel edges A -> B (key 0 long with a geometry, key 1 short), then B -> C,
\* and a long direct motorway edge A -> C
GraphParallel ==
    [id |-> "G",
     nodes |-> Nodes3,
     adj |-> (<<1, 2>> :> [edges |->
                 (0 :> EdgeGeom(800, "secondary", <<<<441, 401>>, <<445, 405>>, <<442, 402>>>>))
              @@ (1 :> Edge(150, "track"))])
          @@ (<<2, 3>> :> [edges |-> (0 :> Edge(100, "primary"))])
          @@ (<<1, 3>> :> [edges |-> (0 :> Edge(1000, "motorway"))])]

Graphs == {GraphSingle, GraphService, GraphDetour, GraphParallel}

\* the single edge A -> B under key 1: the pair has no edge keyed 0 (as after
\* G.remove_edge(A, B, 0) on a pair of parallel edges)
GraphKeyOne ==
    [id |-> "G",
     nodes |-> Nodes3,
     adj |-> (<<1, 2>> :> [edges |-> (1 :> Edge(250, "primary"))])]

\* A -> B under keys 1 and 2
GraphKeysOneTwo ==
    [id |-> "G",
     nodes |-> Nodes3,
     adj |-> (<<1, 2>> :> [edges |-> (1 :> Edge(250, "primary"))
                                      @@ (2 :> Edge(400, "secondary"))])]

GraphsWithoutKeyZero == {GraphKeyOne, GraphKeysOneTwo}

NodesOf(g) == DOMAIN g.nodes

HasEdge(g, u, v) == <<u, v>> \in DOMAIN g.adj

\* the same graph object handed on instead of a copy
Copy_alias(g) == g

\* G.copy(): another graph object with copies of the attribute dictionaries
Copy(g) == [g EXCEPT !.id = "copy"]

\* the graph g as it is once `working` has been written: g itself, unless
\* `working` is the same object
Base(g, working) == IF working.id = g.id THEN working ELSE g

(***************************************************************************)
(* networkx.shortest_path(G, source, target, weight).                      *)
(***************************************************************************)
\* the simple paths from u to target that avoid the nodes in `visited`
RECURSIVE PathsFrom(_, _, _, _)
PathsFrom(g, u, target, visited) ==
    IF u = target THEN {<<u>>}
    ELSE UNION {{<<u>> \o p : p \in PathsFrom(g, v, target, visited \cup {v})} :
                   v \in {w \in NodesOf(g) \ visited : HasEdge(g, u, w)}}

\* the simple paths from source to target, as node sequences
SimplePaths(g, source, target) == PathsFrom(g, source, target, {source})

RECURSIVE SetMin(_)
SetMin(S) ==
    LET x == CHOOSE y \in S : TRUE
    IN  IF S = {x} THEN x ELSE Min(x, SetMin(S \ {x}))

\* weight='length': networkx takes the minimum of the attribute over the
\* parallel edges (1 where the attribute is absent)
length_weight(u, v, entry) ==
    SetMin({Get(entry.edges[k], "length", 1) : k \in DOMAIN entry.edges})

\* congestion_weight of get_multiple_routes: length * (1 + 3 * congestion),
\* in metre-permille
congestion_weight(u, v, d) ==
    LET congestion == Get(d, "congestion", 500)
        length == Get(d, "length", 100)
    IN  length * (1000 + congestion * 3)

\* constraint_weight of get_optimized_route: realistic_weight * avoid_weight
constraint_weight(u, v, d) ==
    LET base_weight == realistic_weight(u, v, d)
        avoid_multiplier == Get(d, "avoid_weight", 1)
    IN  base_weight * avoid_multiplier

\* The weight of the step u -> v.  For a callable weight networkx calls
\* weight(u, v, G[u][v]): on a multigraph the third argument is the adjacency
\* entry (the dictionary of parallel edges), not one edge's attributes.
Weight(kind, u, v, entry) ==
    CASE kind = "realistic_weight" -> realistic_weight(u, v, entry)
      [] kind = "length" -> length_weight(u, v, entry)
      [] kind = "congestion_weight" -> congestion_weight(u, v, entry)
      [] kind = "constraint_weight" -> constraint_weight(u, v, entry)

RECURSIVE PathWeight(_, _, _, _)
PathWeight(g, kind, p, i) ==
    IF i >= Len(p) THEN 0
    ELSE Weight(kind, p[i], p[i + 1], g.adj[<<p[i], p[i + 1]>>])
         + PathWeight(g, kind, p, i + 1)

\* p comes before q in the order in which the search reaches equal-cost paths
\* (shorter first, then by node order)
RECURSIVE LexLeq(_, _, _)
LexLeq(p, q, i) ==
    IF i > Len(p) THEN TRUE
    ELSE IF i > Len(q) THEN FALSE
    ELSE IF p[i] # q[i] THEN p[i] < q[i]
    ELSE LexLeq(p, q, i + 1)

Before(p, q) == Len(p) < Len(q) \/ (Len(p) = Len(q) /\ LexLeq(p, q, 1))

\* [raised |-> TRUE] stands for NetworkXNoPath
shortest_path(g, source, target, kind) ==
    LET paths == SimplePaths(g, source, target)
        dist == SetMin({PathWeight(g, kind, p, 1) : p \in paths})
        best == {p \in paths : PathWeight(g, kind, p, 1) = dist}
    IN  IF paths = {} THEN [raised |-> TRUE]
        ELSE [raised |-> FALSE,
              path |-> CHOOSE p \in best : \A q \in best : Before(p, q)]

(***************************************************************************)
(* Path reconstruction (route_planner.py).                                 *)
(* An operation that can raise returns a record with a field `raised`.     *)
(***************************************************************************)
Raised == [raised |-> TRUE]

\* the coordinates of one segment, as (lat, lon) pairs
SegmentCoords(g, u, v, data) ==
    IF "geometry" \in DOMAIN data
    THEN [i \in 1..Len(data["geometry"]) |->
             <<data["geometry"][i][2], data["geometry"][i][1]>>]
    ELSE <<<<g.nodes[u].y, g.nodes[u].x>>, <<g.nodes[v].y, g.nodes[v].x>>>>

\* the time one segment adds to total_time_s
segment_time_rounded(u, v, data) == Round(realistic_weight(u, v, data), 100)

segment_time(u, v, data) == realistic_weight(u, v, data)

\* one entry of route_details
Segment(u, v, data) ==
    [from_node |-> u,
     to_node |-> v,
     length |-> Get(data, "length", 0),
     congestion |-> Round(Get(data, "congestion", 500), 10),
     road_type |-> Get(data, "_road_type", "unknown"),
     segment_time |-> Round(segment_time(u, v, data), 100),
     speed_kmh |-> Round(get_realistic_speed(data, Get(data, "congestion", 500)), 10)]

\* the loop of _extract_route_details from position i of the path;
\* G[u][v][0] raises KeyError when the pair has no edge keyed 0
RECURSIVE ExtractFrom(_, _, _)
ExtractFrom(g, path, i) ==
    IF i >= Len(path)
    THEN [raised |-> FALSE, route_coords |-> <<>>, total_time_s |-> 0, route_details |-> <<>>]
    ELSE LET u == path[i]
             v == path[i + 1]
             rest == ExtractFrom(g, path, i + 1)
         IN  IF 0 \notin DOMAIN g.adj[<<u, v>>].edges \/ rest.raised
             THEN Raised
             ELSE LET data == g.adj[<<u, v>>].edges[0]
                  IN  [raised |-> FALSE,
                       route_coords |-> SegmentCoords(g, u, v, data) \o rest.route_coords,
                       total_time_s |-> segment_time(u, v, data) + rest.total_time_s,
                       route_details |-> <<Segment(u, v, data)>> \o rest.route_details]

_extract_route_details(g, path) == ExtractFrom(g, path, 1)

RECURSIVE SumOf(_, _, _)
SumOf(details, field, i) ==
    IF i > Len(details) THEN 0 ELSE details[i][field] + SumOf(details, field, i + 1)

\* _generate_route_summary; {} for an empty route.  total_time_min and the
\* average congestion are kept in ms and permille, rounded as the code rounds
\* the minutes and the percent (to 0.1)
_generate_route_summary(route_details) ==
    IF route_details = <<>> THEN [empty |-> TRUE]
    ELSE LET total_distance == SumOf(route_details, "length", 1)
             total_time == SumOf(route_details, "segment_time", 1)
         IN  [empty |-> FALSE,
              total_distance_m |-> Round(total_distance, 10),
              average_congestion |->
                  Round(SumOf(route_details, "congestion", 1) \div Len(route_details), 1),
              total_time_min |-> Round(total_time, 6000),
              estimated_turns |-> Len(route_details) - 1,
              estimated_traffic_lights |->
                  Cardinality({i \in 1..Len(route_details) :
                      route_details[i].road_type \in {"primary", "secondary", "tertiary"}})]

\* the explicit NotFound result: ([], 0, [])
NotFound == [raised |-> FALSE, route_coords |-> <<>>, total_time_s |-> 0, route_details |-> <<>>]

\* get_basic_route without its try/except
get_basic_route_unguarded(g, orig_node, dest_node) ==
    LET sp == shortest_path(g, orig_node, dest_node, "realistic_weight")
    IN  IF sp.raised THEN Raised ELSE _extract_route_details(g, sp.path)

\* get_basic_route: route on the graph as given; any exception gives NotFound
get_basic_route(g, orig_node, dest_node) ==
    LET sp == shortest_path(g, orig_node, dest_node, "realistic_weight")
        r == IF sp.raised THEN Raised ELSE _extract_route_details(g, sp.path)
    IN  IF r.raised THEN NotFound ELSE r

(***************************************************************************)
(* CongestionPredictor (ml_predictor.py).                                  *)
(* ml_predictor =                                                          *)
(*   [is_trained, model, prediction_cache, other_entries, stored_model]:   *)
(*   prediction_cache  the cache entries of the keys the model follows     *)
(*   other_entries     the number of its other entries: those of calls     *)
(*                     whose edge length is OtherLength, each standing for *)
(*                     a length no other call uses                         *)
(*   model         0 for None, Unfitted for a forest constructed and not  *)
(*                 yet fitted, else the identity of a fitted forest        *)
(*   stored_model  the forest in ml_models/random_forest_model.pkl, 0 if  *)
(*                 the file does not exist                                 *)
(***************************************************************************)
\* the noise a training run bakes into model m (random.uniform(-0.1, 0.1))
ModelNoise(m) == ((m * 70) % 201) - 100

\* the fitted forest: the target function of generate_training_data
ModelPredict(m, hour, day_type, road_type_idx, is_rush_hour, is_night) ==
    LET base_congestion == 200 + 100 * road_type_idx
        adjust ==
            IF day_type = 0
            THEN (IF is_rush_hour = 1 THEN 250 ELSE IF is_night = 1 THEN 0 - 300 ELSE 0)
            ELSE (IF 11 <= hour /\ hour <= 16 THEN 150
                  ELSE IF is_night = 1 THEN 0 - 250 ELSE 0)
    IN  Max(50, Min(950, base_congestion + adjust + ModelNoise(m)))

\* train_model: fit a fresh forest, mark trained, dump it to the model file
\* self.model = RandomForestRegressor(...): a forest that has not been fitted
Unfitted == 0 - 1

\* train_model up to the construction of the forest
train_model_construct(p) == [p EXCEPT !.model = Unfitted]

\* self.model.fit(X, y); self.is_trained = True
train_model_fit(p, fresh) == [p EXCEPT !.model = fresh, !.is_trained = TRUE]

\* joblib.dump(self.model, model_path) under _model_lock
train_model_dump(p) == [p EXCEPT !.stored_model = p.model]

\* train_model run without interruption
train_model(p, fresh) ==
    [p EXCEPT !.model = fresh, !.is_trained = TRUE, !.stored_model = fresh]

\* load_model: [found, p]
load_model(p) ==
    IF p.stored_model # 0
    THEN [found |-> TRUE, p |-> [p EXCEPT !.model = p.stored_model, !.is_trained = TRUE]]
    ELSE [found |-> FALSE, p |-> p]

road_type_encoded(road_type) ==
    CASE road_type = "motorway" -> 0
      [] road_type = "primary" -> 1
      [] road_type = "secondary" -> 2
      [] road_type = "residential" -> 3
      [] OTHER -> 2

\* "if len(self.prediction_cache) > 10000"
CacheCap == 10000

\* an edge length that no other call has
OtherLength == 0 - 2

\* len(self.prediction_cache)
CacheLen(p) == Cardinality(DOMAIN p.prediction_cache) + p.other_entries

\* self.prediction_cache[cache_key] = prediction
CachePut(p, cache_key, prediction) ==
    IF cache_key[4] = OtherLength
    THEN [p EXCEPT !.other_entries = @ + 1]
    ELSE [p EXCEPT !.prediction_cache = @ @@ (cache_key :> prediction)]

\* the clearing of the cache left out
clear_never(p) == p

\* if len(self.prediction_cache) > 10000: self.prediction_cache.clear()
clear_if_full(p) ==
    IF CacheLen(p) > CacheCap
    THEN [p EXCEPT !.prediction_cache = <<>>, !.other_entries = 0]
    ELSE p

\* predict_congestion: [raised, value, p]; p is the predictor afterwards.
\* `fresh` is the forest a training run started by this call would produce.
predict_congestion(p, hour, day_type, road_type, length, fresh) ==
    LET cache_key == <<hour, day_type, road_type, length>>
    IN  IF cache_key \in DOMAIN p.prediction_cache
        THEN [raised |-> FALSE, value |-> p.prediction_cache[cache_key], p |-> p]
        ELSE
        LET p1 == IF p.is_trained THEN p
                  ELSE IF load_model(p).found THEN load_model(p).p
                  ELSE train_model(p, fresh)
        IN  IF hour = NoHour \/ p1.model = 0 \/ p1.model = Unfitted
            \* 7 <= None raises TypeError; None.predict raises AttributeError;
            \* predict on a forest not yet fitted raises NotFittedError
            THEN [raised |-> TRUE, p |-> p1]
            ELSE
            LET is_rush_hour ==
                    IF (7 <= hour /\ hour <= 9) \/ (17 <= hour /\ hour <= 19) THEN 1 ELSE 0
                is_night == IF 0 <= hour /\ hour <= 5 THEN 1 ELSE 0
                prediction ==
                    Max(50, Min(950, ModelPredict(p1.model, hour, day_type,
                            road_type_encoded(road_type), is_rush_hour, is_night)))
            IN  [raised |-> FALSE,
                 value |-> prediction,
                 p |-> clear_if_full(CachePut(p1, cache_key, prediction))]

(***************************************************************************)
(* The per-request working copy: congestion (and avoid_weight) of every    *)
(* edge, written while iterating G.edges(keys=True, data=True).            *)
(***************************************************************************)
EdgeIds(g) ==
    UNION {{<<uv[1], uv[2], k>> : k \in DOMAIN g.adj[uv].edges} : uv \in DOMAIN g.adj}

\* data[name] = value on edge e of g
SetAttr(g, e, name, value) ==
    [g EXCEPT !.adj[<<e[1], e[2]>>].edges[e[3]] = (name :> value) @@ @]

\* the loop over the edges in `todo`; use_avoid tells whether avoid_weight is
\* written too (get_optimized_route).  [raised, g, p]
RECURSIVE Populate(_, _, _, _, _, _, _, _)
Populate(g, p, todo, hour, day_type_numeric, fresh, use_avoid, avoid_road_types) ==
    IF todo = {} THEN [raised |-> FALSE, g |-> g, p |-> p]
    ELSE LET e == CHOOSE x \in todo : \A z \in todo : LexLeq(x, z, 1)
             data == g.adj[<<e[1], e[2]>>].edges[e[3]]
             road_type == Get(data, "_road_type", "residential")
             length == Get(data, "length", 100)
             pr == predict_congestion(p, hour, day_type_numeric, road_type, length, fresh)
         IN  IF pr.raised THEN [raised |-> TRUE, g |-> g, p |-> pr.p]
             ELSE LET g1 == SetAttr(g, e, "congestion", pr.value)
                      g2 == IF ~use_avoid THEN g1
                            ELSE IF avoid_road_types # {} /\ road_type \in avoid_road_types
                            THEN SetAttr(g1, e, "avoid_weight", 1000)
                            ELSE SetAttr(g1, e, "avoid_weight", 1)
                  IN  Populate(g2, pr.p, todo \ {e}, hour, day_type_numeric, fresh,
                               use_avoid, avoid_road_types)

day_type_numeric(day_type) == IF day_type = "weekday" THEN 0 ELSE 1

(***************************************************************************)
(* computeRoute: get_ml_route (route_planner.py).                          *)
(***************************************************************************)
\* [result, p, G_ml]: the returned triple, the predictor afterwards and the
\* graph the route was extracted from (the working copy, or g after the
\* fallback to get_basic_route)
get_ml_route(g, p, orig_node, dest_node, hour, day_type, fresh) ==
    Let(Populate(Copy(g), p, EdgeIds(g), hour, day_type_numeric(day_type), fresh, FALSE, {}),
        LAMBDA pop :
            Let(IF pop.raised THEN Raised
                ELSE Let(shortest_path(pop.g, orig_node, dest_node, "realistic_weight"),
                         LAMBDA sp : IF sp.raised THEN Raised
                                     ELSE _extract_route_details(pop.g, sp.path)),
                LAMBDA r :
                    IF r.raised
                    THEN [result |-> get_basic_route(Base(g, pop.g), orig_node, dest_node),
                          p |-> pop.p, G_ml |-> Base(g, pop.g), G |-> Base(g, pop.g)]
                    ELSE [result |-> r, p |-> pop.p, G_ml |-> pop.g, G |-> Base(g, pop.g)]))

(***************************************************************************)
(* MultiRouteComposer: get_multiple_routes (route_planner.py).             *)
(***************************************************************************)
Labels == {"fastest", "shortest", "least_congested"}

WeightOf(label) ==
    CASE label = "fastest" -> "realistic_weight"
      [] label = "shortest" -> "length"
      [] label = "least_congested" -> "congestion_weight"

\* the body of one labelled try block, routing from source to target:
\* Raised, or the label's entry.  `faults` are the labels whose block raises
\* for a reason outside the model (each block catches every Exception).
RouteOptionBody(g, source, target, label, faults) ==
    IF label \in faults THEN Raised
    ELSE
    Let(shortest_path(g, source, target, WeightOf(label)),
        LAMBDA sp :
            IF sp.raised THEN Raised
            ELSE Let(_extract_route_details(g, sp.path),
                     LAMBDA r :
                        IF r.raised THEN Raised
                        ELSE [raised |-> FALSE,
                              route |-> r.route_coords,
                              total_time_min |-> Round(r.total_time_s, 6000),
                              route_details |-> r.route_details,
                              summary |-> _generate_route_summary(r.route_details)]))

\* the 'shortest' block with the endpoints exchanged
RouteOption_swapped(g, orig_node, dest_node, label, faults) ==
    IF label = "shortest" THEN RouteOptionBody(g, dest_node, orig_node, label, faults)
    ELSE RouteOptionBody(g, orig_node, dest_node, label, faults)

RouteOption(g, orig_node, dest_node, label, faults) ==
    RouteOptionBody(g, orig_node, dest_node, label, faults)

\* the three try blocks as one: the first failure abandons the request
route_options_all_or_nothing(g, orig_node, dest_node, faults) ==
    Let([label \in Labels |-> RouteOption(g, orig_node, dest_node, label, faults)],
        LAMBDA opt :
            IF \E label \in Labels : opt[label].raised THEN <<>>
            ELSE opt)

\* route_options after the three try blocks: a label whose block raised is absent
route_options(g, orig_node, dest_node, faults) ==
    Let([label \in Labels |-> RouteOption(g, orig_node, dest_node, label, faults)],
        LAMBDA opt :
            [label \in {l \in Labels : ~opt[l].raised} |-> opt[label]])

\* [result, p, G_ml, populated]; a failure before the try blocks gives {}
\* (here <<>>)
get_multiple_routes(g, p, orig_node, dest_node, hour, day_type, fresh, faults) ==
    Let(Populate(Copy(g), p, EdgeIds(g), hour, day_type_numeric(day_type), fresh, FALSE, {}),
        LAMBDA pop :
            IF pop.raised
            THEN [result |-> <<>>, p |-> pop.p, G_ml |-> Base(g, pop.g), populated |-> FALSE,
                  G |-> Base(g, pop.g)]
            ELSE [result |-> route_options(pop.g, orig_node, dest_node, faults),
                  p |-> pop.p, G_ml |-> pop.g, populated |-> TRUE, G |-> Base(g, pop.g)])

(***************************************************************************)
(* DepartureTimeOptimizer (smart_planner.py).                              *)
(* max_travel_time is in ms here (minutes in the program); NoLimit stands  *)
(* for None.  None stands for a Python None result.                        *)
(***************************************************************************)
None == [none |-> TRUE]

\* Python truthiness of max_travel_time: None and 0 are false
Truthy(max_travel_time) == max_travel_time # NoLimit /\ max_travel_time # 0

\* the test that takes 0 for a limit like any other
Supplied(max_travel_time) == max_travel_time # NoLimit

\* road_types_used: road type -> number of segments
RoadTypesUsed(route_details) ==
    [road_type \in {route_details[i].road_type : i \in 1..Len(route_details)} |->
        Cardinality({i \in 1..Len(route_details) : route_details[i].road_type = road_type})]

\* the time get_optimized_route reports for a route, from total_time_s
reported_time_with_penalty(g, r) ==
    LET RECURSIVE Penalised(_)
        Penalised(i) ==
            IF i > Len(r.route_details) THEN 0
            ELSE LET seg == r.route_details[i]
                     data == g.adj[<<seg.from_node, seg.to_node>>].edges[0]
                 IN  constraint_weight(seg.from_node, seg.to_node, data) + Penalised(i + 1)
    IN  Penalised(1)

reported_time(g, r) == r.total_time_s

\* get_optimized_route: [route, p, G]; route is None after any exception
\* (no path, a failed prediction, an empty route's division by zero)
get_optimized_route(g, p, orig_node, dest_node, hour, day_type, avoid_road_types, fresh) ==
    Let(Populate(Copy(g), p, EdgeIds(g), hour, day_type_numeric(day_type), fresh,
                 TRUE, avoid_road_types),
        LAMBDA pop :
            IF pop.raised
            THEN [route |-> None, p |-> pop.p, G |-> Base(g, pop.g), searches |-> 0]
            ELSE
            Let(shortest_path(pop.g, orig_node, dest_node, "constraint_weight"),
                LAMBDA sp :
                    IF sp.raised
                    THEN [route |-> None, p |-> pop.p, G |-> Base(g, pop.g), searches |-> 1]
                    ELSE
                    Let(_extract_route_details(pop.g, sp.path),
                        LAMBDA r :
                            IF r.raised \/ Len(r.route_details) = 0
                            THEN [route |-> None, p |-> pop.p, G |-> Base(g, pop.g),
                                  searches |-> 1]
                            ELSE [route |->
                                     [route_coords |-> r.route_coords,
                                      total_time_min |-> reported_time(pop.g, r),
                                      total_distance_km |-> SumOf(r.route_details, "length", 1),
                                      avg_congestion |->
                                          SumOf(r.route_details, "congestion", 1)
                                              \div Len(r.route_details),
                                      road_types_used |-> RoadTypesUsed(r.route_details),
                                      route_details |-> r.route_details,
                                      summary |-> _generate_route_summary(r.route_details)],
                                  p |-> pop.p, G |-> Base(g, pop.g), searches |-> 1])))

\* "return max(0, final_score)" without the max
score_unfloored(final_score) == final_score

\* return max(0, final_score)
score_floored(final_score) == Max(0, final_score)

\* calculate_time_score, in hundredths; travel_time in ms, congestion in permille
calculate_time_score(travel_time, congestion, hour, max_travel_time) ==
    LET time_score == 600000000 \div (travel_time + 60000)
        congestion_penalty == congestion * 5
        time_penalty == IF hour <= 5 \/ hour >= 23 THEN 2000
                        ELSE IF hour <= 7 \/ hour >= 21 THEN 1000
                        ELSE 0
        constraint_bonus ==
            IF Truthy(max_travel_time) /\ travel_time <= max_travel_time THEN 3000 ELSE 0
        final_score == time_score - congestion_penalty - time_penalty + constraint_bonus
    IN  score_floored(final_score)

\* a window bound sent as the JSON number h + 0.5 (a float) is written
\* 100 + h; the integers a window is drawn from stay below 100
HalfPast(h) == 100 + h

\* whether range() accepts the bound
IsInt(x) == x < 100

\* hours_to_check.insert(0, window_start), put at the end instead
insert_last(hours, window_start) == Append(hours, window_start)

\* hours_to_check.insert(0, window_start)
insert_first(hours, window_start) == <<window_start>> \o hours

\* "window_start not in hours_to_check" taken as always true
not_in_always(hour, hours) == TRUE

\* window_start not in hours_to_check
not_in(hour, hours) == \A i \in 1..Len(hours) : hours[i] # hour

\* hours_to_check: the even hours of the window, then the bounds added
hours_to_check(window_start, window_end) ==
    LET RECURSIVE Even(_)
        Even(hour) ==
            IF hour > window_end THEN <<>>
            ELSE IF hour % 2 = 0 THEN <<hour>> \o Even(hour + 1)
            ELSE Even(hour + 1)
        a == Even(window_start)
        b == IF not_in(window_start, a) THEN insert_first(a, window_start) ELSE a
    IN  IF not_in(window_end, b) THEN Append(b, window_end) ELSE b

\* the "skip if exceeds max travel time" test of the search loop
exceeds_limit_never(max_travel_time, travel_time) == FALSE

exceeds_limit(max_travel_time, travel_time) ==
    Truthy(max_travel_time) /\ travel_time > max_travel_time

\* "if score > best_score", with >= in place of >
better_or_equal(score, best_score) == score >= best_score

\* if score > best_score
better(score, best_score) == score > best_score

\* the loop of find_best_time_in_window from position i of hours;
\* acc = [best_time, best_score, p, checked, survivors, G, raised, searches]:
\* checked are the hours evaluated so far, survivors the candidates scored so
\* far, G the base graph as the evaluations have left it, searches the
\* calls of nx.shortest_path made so far
RECURSIVE SearchFrom(_, _, _, _, _, _, _, _, _)
SearchFrom(acc, hours, i, orig_node, dest_node, max_travel_time, avoid_road_types, day_type, fresh) ==
    IF i > Len(hours) THEN acc
    ELSE
    Let(get_optimized_route(acc.G, acc.p, orig_node, dest_node, hours[i], day_type,
                            avoid_road_types, fresh),
        LAMBDA rd :
            Let(IF rd.route = None
                   \/ exceeds_limit(max_travel_time, rd.route.total_time_min)
                THEN [acc EXCEPT !.p = rd.p, !.G = rd.G, !.checked = Append(@, hours[i]),
                                 !.searches = @ + rd.searches]
                ELSE LET travel_time == rd.route.total_time_min
                         congestion == rd.route.avg_congestion
                         score == calculate_time_score(travel_time, congestion, hours[i],
                                                       max_travel_time)
                         survivors == Append(acc.survivors,
                                             [hour |-> hours[i], score |-> score])
                     IN  IF better(score, acc.best_score)
                         THEN [best_time |-> [hour |-> hours[i],
                                              travel_time_min |-> travel_time,
                                              congestion_percent |-> congestion,
                                              score |-> score],
                               best_score |-> score,
                               p |-> rd.p,
                               checked |-> Append(acc.checked, hours[i]),
                               survivors |-> survivors,
                               G |-> rd.G,
                               raised |-> FALSE,
                               searches |-> acc.searches + rd.searches]
                         ELSE [acc EXCEPT !.p = rd.p, !.G = rd.G,
                                          !.checked = Append(@, hours[i]),
                                          !.survivors = survivors,
                                          !.searches = @ + rd.searches],
                LAMBDA acc1 :
                    SearchFrom(acc1, hours, i + 1, orig_node, dest_node, max_travel_time,
                               avoid_road_types, day_type, fresh)))

\* find_best_time_in_window:
\* [best_time, best_score, p, checked, survivors, G, raised(, exception)].
\* The list of hours is built outside the try block of the loop, and
\* range() raises TypeError for a bound that is not an int.
find_best_time_in_window(g, p, orig_node, dest_node, window_start, window_end, max_travel_time, avoid_road_types, day_type, fresh) ==
    IF ~IsInt(window_start) \/ ~IsInt(window_end)
    THEN [best_time |-> None, best_score |-> NegInf, p |-> p, checked |-> <<>>,
          survivors |-> <<>>, G |-> g, raised |-> TRUE, searches |-> 0,
          exception |-> "'float' object cannot be interpreted as an integer"]
    ELSE
    SearchFrom([best_time |-> None, best_score |-> NegInf, p |-> p, checked |-> <<>>,
                survivors |-> <<>>, G |-> g, raised |-> FALSE, searches |-> 0],
               hours_to_check(window_start, window_end), 1, orig_node, dest_node,
               max_travel_time, avoid_road_types, day_type, fresh)

\* actually_avoided = set(avoided_roads) - set(used_roads)
actually_avoided_all(avoided_roads, used_roads) == avoided_roads

actually_avoided_of(avoided_roads, used_roads) == avoided_roads \ used_roads

\* generate_travel_recommendations: the recommendations as tags, in order,
\* and the set the "Successfully Avoided" line lists
generate_travel_recommendations(route_data, best_time, constraints) ==
    LET travel_time == route_data.total_time_min
        congestion == best_time.congestion_percent
        hour == best_time.hour
        max_time == constraints.max_travel_time
        avoided_roads == constraints.avoid_road_types
        used_roads == DOMAIN route_data.road_types_used
        actually_avoided ==
            IF avoided_roads # {} THEN actually_avoided_of(avoided_roads, used_roads) ELSE {}
        time_note ==
            IF hour >= 7 /\ hour <= 9 THEN <<"Morning Rush Hour">>
            ELSE IF hour >= 17 /\ hour <= 19 THEN <<"Evening Rush">>
            ELSE IF hour <= 6 \/ hour >= 22 THEN <<"Late Night Travel">>
            ELSE <<>>
        congestion_note ==
            IF congestion < 300 THEN <<"Excellent Conditions">>
            ELSE IF congestion < 500 THEN <<"Good Conditions">>
            ELSE IF congestion < 700 THEN <<"Heavy Traffic">>
            ELSE <<"Very Heavy Traffic">>
        limit_note ==
            IF Truthy(max_time) /\ travel_time * 10 > max_time * 9
            THEN <<"Close to Time Limit">> ELSE <<>>
        avoided_note ==
            IF actually_avoided # {} THEN <<"Successfully Avoided">> ELSE <<>>
        long_note == IF travel_time > 1800000 THEN <<"Long Trip Tip">> ELSE <<>>
        complex_note ==
            IF Len(route_data.route_details) > 20 THEN <<"Complex Route">> ELSE <<>>
    IN  [recommendations |->
             time_note \o congestion_note \o limit_note \o avoided_note \o long_note
                 \o complex_note,
         actually_avoided |-> actually_avoided]

\* the result of the except block of smart_travel_planner: the message is
\* f"Planning error: {str(e)}", here the literal followed by the text of e
planning_error(e) == [success |-> FALSE, message |-> <<"Planning error: ", e>>]

\* the rest of smart_travel_planner once the search has returned (search is
\* what find_best_time_in_window gave): [result, p, G, searches].  A message is the
\* sequence of its parts.  Indexing a None route raises inside the try block.
plan_result(g, p, orig_node, dest_node, search, constraints, fresh) ==
    IF search.raised
    THEN [result |-> planning_error(search.exception), p |-> p, G |-> g,
          searches |-> search.searches]
    ELSE
    LET best_time == search.best_time IN
    IF best_time = None
    THEN [result |-> [success |-> FALSE,
                      message |-> <<"No suitable route found within your constraints. Try relaxing some requirements.">>],
          p |-> p, G |-> g, searches |-> search.searches]
    ELSE
    Let(get_optimized_route(g, p, orig_node, dest_node, best_time.hour, constraints.day_type,
                            constraints.avoid_road_types, fresh),
        LAMBDA optimal :
            IF optimal.route = None
            THEN [result |-> planning_error("'NoneType' object is not subscriptable"),
                  p |-> optimal.p, G |-> optimal.G,
                  searches |-> search.searches + optimal.searches]
            ELSE [result |->
                     [success |-> TRUE,
                      optimal_departure_time |-> best_time,
                      recommended_route |-> optimal.route,
                      recommendations |->
                          generate_travel_recommendations(optimal.route, best_time, constraints),
                      constraints_used |-> constraints],
                  p |-> optimal.p, G |-> optimal.G,
                  searches |-> search.searches + optimal.searches])

(***************************************************************************)
(* The historical store (congestion_simulator.py): historical_data         *)
(* ["hourly_patterns"], here hour -> list of records.  datetime.now() is   *)
(* the counter `now`.                                                      *)
(***************************************************************************)
\* "Keep only last 100 records per hour"
HistoryCap == 100

\* np.mean of the congestion values, 0.5 for no data
Mean(congestion_data) ==
    LET RECURSIVE Sum(_)
        Sum(i) == IF i > Len(congestion_data) THEN 0
                  ELSE Get(congestion_data[i], "congestion", 500) + Sum(i + 1)
    IN  IF Len(congestion_data) = 0 THEN 500 ELSE Sum(1) \div Len(congestion_data)

HistoryRecord(timestamp, day_type, congestion_data) ==
    [timestamp |-> timestamp, avg_congestion |-> Mean(congestion_data), day_type |-> day_type]

\* list[:n]
keep_first(list, n) == SubSeq(list, 1, n)

\* list[-n:]
keep_last(list, n) == SubSeq(list, Len(list) - n + 1, Len(list))

\* update_historical_data up to the save: the dictionary afterwards
update_historical_data(hd, hour, day_type, congestion_data, timestamp) ==
    LET hd1 == IF hour \in DOMAIN hd THEN hd ELSE (hour :> <<>>) @@ hd
        hd2 == [hd1 EXCEPT ![hour] =
                   Append(@, HistoryRecord(timestamp, day_type, congestion_data))]
    IN  IF Len(hd2[hour]) > HistoryCap
        THEN [hd2 EXCEPT ![hour] = keep_last(@, HistoryCap)]
        ELSE hd2

\* the loop of enhanced_simulate_congestion over the edges in `todo`:
\* [g, congestion_data]
RECURSIVE Annotate(_, _, _, _, _, _, _)
Annotate(g, todo, congestion_data, hour, day_type, u1, u2) ==
    IF todo = {} THEN [g |-> g, congestion_data |-> congestion_data]
    ELSE LET e == CHOOSE x \in todo : \A z \in todo : LexLeq(x, z, 1)
             data == g.adj[<<e[1], e[2]>>].edges[e[3]]
             base_congestion == get_realistic_congestion(data, hour, day_type, u1, u2)
             c == Max(50, Min(950, base_congestion))
         IN  Annotate(SetAttr(g, e, "congestion", c), todo \ {e},
                      Append(congestion_data, ("congestion" :> c)), hour, day_type, u1, u2)

\* save_historical_data raises when the file cannot be written
save_historical_data(store_ok) == ~store_ok

\* "if hour is not None" taken as always true
records_always(hour) == TRUE

\* if hour is not None: update_historical_data(...)
records_hour(hour) == hour # NoHour

\* enhanced_simulate_congestion on the graph it is handed:
\* [raised, G, historical_data]; nothing in it catches an exception
enhanced_simulate_congestion(g, hd, hour, day_type, u1, u2, timestamp, store_ok) ==
    Let(Annotate(g, EdgeIds(g), <<>>, hour, day_type, u1, u2),
        LAMBDA a :
            IF ~records_hour(hour)
            THEN [raised |-> FALSE, G |-> a.g, historical_data |-> hd]
            ELSE [raised |-> save_historical_data(store_ok), G |-> a.g,
                  historical_data |->
                      update_historical_data(hd, hour, day_type, a.congestion_data, timestamp)])

(***************************************************************************)
(* Inputs.                                                                 *)
(***************************************************************************)
DayTypes == {"weekday", "weekend"}

\* the hour of a /route request: null, or an hour of the day
RouteHours == {NoHour, 3, 8}

\* the hour of a /multi-route request
Hours == {3, 8, 13}

\* the time windows, limits (ms; 60 ms is 0.001 min) and avoid lists of a plan
Windows == {<<8, 9>>, <<5, 8>>, <<HalfPast(8), HalfPast(9)>>}

MaxTravelTimes == {NoLimit, 0, 60, 30000}

AvoidSets == {{}, {"service"}, {"service", "motorway"}}

\* sample lengths (m) and congestion values (permille) for the cost function,
\* on both sides of each speed step
Lengths == {0, 1, 100, 1000}

CongestionValues == {0, 50, 299, 300, 599, 600, 799, 800, 950, 1000}

\* sample travel times (ms) and congestion values (permille) of a candidate
TravelTimes == {0, 60, 30000, 60000, 600000, 1800000}

CongestionPercents == {50, 100, 300, 500, 950}

\* the hour whose history is followed, and the request threads that may be
\* inside update_historical_data at once
HistoryHours == {8}

Workers == {"t1", "t2"}

\* the congestion data handed to a direct call of update_historical_data
SampleData == <<("congestion" :> 300), ("congestion" :> 800)>>

\* a category left out of an edge dictionary (NoValue for a number)
Absent == "absent"

\* an edge dictionary holding only the attributes that are not Absent
EdgeData(length, road_type, congestion) ==
    LET a == IF length = NoValue THEN <<>> ELSE ("length" :> length)
        b == IF road_type = Absent THEN <<>> ELSE ("_road_type" :> road_type)
        c == IF congestion = NoValue THEN <<>> ELSE ("congestion" :> congestion)
    IN  a @@ b @@ c

(***************************************************************************)
(* The state machine.  A behaviour starts from the state after the import  *)
(* of the package, serves one operation, recorded with its result in       *)
(* `call`, and interleaves it with the end of the background training.     *)
(***************************************************************************)
Init ==
    /\ G \in Graphs
    /\ trip \in NodesOf(G) \X NodesOf(G)
    /\ \E stored \in 0..1 :
          ml_predictor = [is_trained |-> FALSE, model |-> 0,
                          prediction_cache |-> <<>>, other_entries |-> 0,
                          stored_model |-> stored]
    /\ bg_thread = "running"
    /\ plan = [pc |-> "idle"]
    /\ call = [op |-> "none"]
    /\ historical_data = <<>>
    /\ now = 0
    /\ workers = [w \in Workers |-> [pc |-> "idle", ref |-> "none", rec |-> 0, tmp |-> <<>>]]

\* the state after the import on a graph with a pair that has no edge keyed 0
InitKeys ==
    /\ G \in GraphsWithoutKeyZero
    /\ trip \in NodesOf(G) \X NodesOf(G)
    /\ \E stored \in 0..1 :
          ml_predictor = [is_trained |-> FALSE, model |-> 0,
                          prediction_cache |-> <<>>, other_entries |-> 0,
                          stored_model |-> stored]
    /\ bg_thread = "running"
    /\ plan = [pc |-> "idle"]
    /\ call = [op |-> "none"]
    /\ historical_data = <<>>
    /\ now = 0
    /\ workers = [w \in Workers |-> [pc |-> "idle", ref |-> "none", rec |-> 0, tmp |-> <<>>]]

\* the store followed on one graph, with no trip
InitHistory == Init /\ G = GraphSingle /\ trip = <<1, 1>>

\* the forests a training run started on the request path can produce
\* (one stand-in where the predictor would not train)
FreshModels(p) == IF p.is_trained \/ p.stored_model # 0 THEN {1} ELSE 1..NumModels

\* the thread started by train_ml_model_async finishes train_model
BackgroundTrain ==
    /\ bg_thread = "running"
    /\ \E fresh \in 1..NumModels : ml_predictor' = train_model(ml_predictor, fresh)
    /\ bg_thread' = "done"
    /\ UNCHANGED <<G, trip, plan, call>>
    /\ UNCHANGED hist_vars

\* the background thread taken statement by statement: the forest is
\* constructed and assigned to self.model
TrainConstruct ==
    /\ bg_thread = "running"
    /\ ml_predictor' = train_model_construct(ml_predictor)
    /\ bg_thread' = "constructed"
    /\ UNCHANGED <<G, trip, plan, call>>
    /\ UNCHANGED hist_vars

\* the forest self.model refers to is fitted and is_trained is set
TrainFit ==
    /\ bg_thread = "constructed"
    /\ \E fresh \in 1..NumModels : ml_predictor' = train_model_fit(ml_predictor, fresh)
    /\ bg_thread' = "fitted"
    /\ UNCHANGED <<G, trip, plan, call>>
    /\ UNCHANGED hist_vars

\* the forest is written to the model file
TrainDump ==
    /\ bg_thread = "fitted"
    /\ ml_predictor' = train_model_dump(ml_predictor)
    /\ bg_thread' = "done"
    /\ UNCHANGED <<G, trip, plan, call>>
    /\ UNCHANGED hist_vars

\* the keys the request threads ask for while the background thread trains
TrainingKeys == {<<8, 0, "primary", 250>>, <<3, 1, "motorway", 250>>}

\* a predict call of a request thread, made at any point of the training
PredictWhileTraining ==
    /\ \E key \in TrainingKeys, fresh \in FreshModels(ml_predictor) :
          \E r \in {predict_congestion(ml_predictor, key[1], key[2], key[3], key[4], fresh)} :
              /\ ml_predictor' = r.p
              /\ call' = [op |-> "predict_congestion while training", key |-> key,
                          before |-> ml_predictor, training |-> bg_thread,
                          raised |-> r.raised]
    /\ UNCHANGED <<G, trip, bg_thread, plan>>
    /\ UNCHANGED hist_vars

\* POST /route: get_ml_route on the shared graph; nearest_nodes resolves the
\* two points to the nodes of the trip
Route ==
    /\ call.op = "none"
    /\ plan.pc = "idle"
    /\ \E hour \in RouteHours, day_type \in DayTypes, fresh \in FreshModels(ml_predictor) :
          \E r \in {get_ml_route(G, ml_predictor, trip[1], trip[2], hour, day_type, fresh)} :
              /\ ml_predictor' = r.p
              /\ G' = r.G
              /\ call' = [op |-> "get_ml_route", hour |-> hour, day_type |-> day_type,
                          result |-> r.result, G_ml |-> r.G_ml]
    /\ UNCHANGED <<trip, bg_thread, plan>>
    /\ UNCHANGED hist_vars

\* the same /route request once more: get_ml_route with the origin,
\* destination, hour and day type of the request already served
RouteAgain ==
    /\ call.op = "get_ml_route"
    /\ plan.pc = "idle"
    /\ \E fresh \in FreshModels(ml_predictor) :
          \E r \in {get_ml_route(G, ml_predictor, trip[1], trip[2], call.hour, call.day_type,
                                 fresh)} :
              /\ ml_predictor' = r.p
              /\ G' = r.G
              /\ call' = [op |-> "get_ml_route again", hour |-> call.hour,
                          day_type |-> call.day_type, first |-> call.result,
                          result |-> r.result, G_ml |-> r.G_ml]
    /\ UNCHANGED <<trip, bg_thread, plan>>
    /\ UNCHANGED hist_vars

\* predictions made for other requests take prediction_cache past its
\* 10000 entries: the cache is cleared
CacheOverflow ==
    /\ ml_predictor.is_trained
    /\ ml_predictor.prediction_cache # <<>>
    /\ ml_predictor' = [ml_predictor EXCEPT !.prediction_cache = <<>>, !.other_entries = 0]
    /\ UNCHANGED <<G, trip, bg_thread, plan, call>>
    /\ UNCHANGED hist_vars

\* the keys of a run of predict calls: one asked again and again, and keys
\* with an edge length of their own
ProbeKeys == {<<8, 0, "primary", 250>>, <<3, 1, "motorway", OtherLength>>}

\* one predict call of many made on the shared predictor by the requests
PredictMany ==
    /\ \E key \in ProbeKeys,
          fresh \in FreshModels(ml_predictor) :
          \E r \in {predict_congestion(ml_predictor, key[1], key[2], key[3], key[4], fresh)} :
              /\ ml_predictor' = r.p
              /\ call' = [op |-> "predict_congestion many", key |-> key,
                          cached |-> key \in DOMAIN ml_predictor.prediction_cache,
                          stored |-> Get(ml_predictor.prediction_cache, key, NoValue),
                          size_before |-> CacheLen(ml_predictor),
                          unchanged |-> r.p = ml_predictor,
                          value |-> r.value]
    /\ UNCHANGED <<G, trip, bg_thread, plan>>
    /\ UNCHANGED hist_vars

\* POST /multi-route: get_multiple_routes on the shared graph
MultiRoute ==
    /\ call.op = "none"
    /\ plan.pc = "idle"
    /\ \E hour \in Hours, day_type \in DayTypes, fresh \in FreshModels(ml_predictor),
          faults \in SUBSET Labels :
          \E r \in {get_multiple_routes(G, ml_predictor, trip[1], trip[2], hour, day_type,
                                        fresh, faults)} :
              /\ ml_predictor' = r.p
              /\ G' = r.G
              /\ call' = [op |-> "get_multiple_routes", hour |-> hour, day_type |-> day_type,
                          faults |-> faults, populated |-> r.populated,
                          result |-> r.result, G_ml |-> r.G_ml]
    /\ UNCHANGED <<trip, bg_thread, plan>>
    /\ UNCHANGED hist_vars

\* POST /smart-travel-plan, first part: smart_travel_planner reads the
\* constraints and runs find_best_time_in_window
PlanSearch ==
    /\ call.op = "none"
    /\ plan.pc = "idle"
    /\ \E window \in Windows, max_travel_time \in MaxTravelTimes,
          avoid_road_types \in AvoidSets, day_type \in DayTypes,
          fresh \in FreshModels(ml_predictor) :
          \E r \in {find_best_time_in_window(G, ml_predictor, trip[1], trip[2], window[1],
                        window[2], max_travel_time, avoid_road_types, day_type, fresh)} :
              /\ ml_predictor' = r.p
              /\ plan' = [pc |-> "searched",
                          constraints |-> [max_travel_time |-> max_travel_time,
                                           avoid_road_types |-> avoid_road_types,
                                           time_window_start |-> window[1],
                                           time_window_end |-> window[2],
                                           day_type |-> day_type],
                          search |-> r,
                          best_time |-> r.best_time,
                          checked |-> r.checked,
                          survivors |-> r.survivors]
              /\ G' = r.G
    /\ UNCHANGED <<trip, bg_thread, call>>
    /\ UNCHANGED hist_vars

\* second part: the failure result, or the route recomputed for the best hour
\* with its recommendations
PlanFinish ==
    /\ plan.pc = "searched"
    /\ \E fresh \in FreshModels(ml_predictor) :
          \E r \in {plan_result(G, ml_predictor, trip[1], trip[2], plan.search,
                                plan.constraints, fresh)} :
              /\ ml_predictor' = r.p
              /\ G' = r.G
              /\ call' = [op |-> "smart_travel_planner", constraints |-> plan.constraints,
                          checked |-> plan.checked, survivors |-> plan.survivors,
                          best_time |-> plan.best_time, result |-> r.result,
                          searches |-> r.searches]
    /\ plan' = [pc |-> "idle"]
    /\ UNCHANGED <<trip, bg_thread>>
    /\ UNCHANGED hist_vars

\* update_historical_data, called with no other call in progress
UpdateHistorical ==
    /\ now < MaxAppends
    /\ \A w \in Workers : workers[w].pc = "idle"
    /\ \E hour \in HistoryHours :
          historical_data' = update_historical_data(historical_data, hour, "weekday",
                                                    SampleData, now + 1)
    /\ now' = now + 1
    /\ UNCHANGED <<G, trip, ml_predictor, bg_thread, plan, call, workers>>

\* enhanced_simulate_congestion on a copy of the graph (get_congestion_data);
\* store_ok tells whether the history file can be written
Simulate ==
    /\ call.op = "none"
    /\ \A w \in Workers : workers[w].pc = "idle"
    /\ \E hour \in HistoryHours \cup {NoHour}, day_type \in DayTypes,
          u1 \in 0..JitterSteps, u2 \in 0..JitterSteps, store_ok \in BOOLEAN :
          \E r \in {enhanced_simulate_congestion(Copy(G), historical_data, hour, day_type,
                                                 u1, u2, now + 1, store_ok)} :
              /\ historical_data' = r.historical_data
              /\ G' = Base(G, r.G)
              /\ call' = [op |-> "enhanced_simulate_congestion", hour |-> hour,
                          day_type |-> day_type, store_ok |-> store_ok,
                          raised |-> r.raised, G |-> r.G]
    /\ now' = now + 1
    /\ UNCHANGED <<trip, ml_predictor, bg_thread, plan, workers>>

\* a request thread inside update_historical_data(8, ...), one step at a time.
\* ref tells whether the list the thread fetched is still the one in the
\* dictionary ("shared") or has been replaced there ("orphan").
Others(w, ws) ==
    [x \in Workers |-> IF x # w /\ ws[x].ref = "shared" THEN [ws[x] EXCEPT !.ref = "orphan"]
                       ELSE ws[x]]

WorkerEnter(w) ==
    /\ workers[w].pc = "idle"
    /\ workers' = [workers EXCEPT ![w].pc = "check"]
    /\ UNCHANGED <<G, trip, ml_predictor, bg_thread, plan, call, historical_data, now>>

\* if hour_key not in historical_data["hourly_patterns"]
WorkerCheckKey(w) ==
    /\ workers[w].pc = "check"
    /\ workers' = [workers EXCEPT ![w].pc = IF 8 \in DOMAIN historical_data THEN "fetch"
                                            ELSE "create"]
    /\ UNCHANGED <<G, trip, ml_predictor, bg_thread, plan, call, historical_data, now>>

\* historical_data["hourly_patterns"][hour_key] = []
WorkerCreate(w) ==
    /\ workers[w].pc = "create"
    /\ historical_data' = (8 :> <<>>) @@ historical_data
    /\ workers' = [Others(w, workers) EXCEPT ![w].pc = "fetch"]
    /\ UNCHANGED <<G, trip, ml_predictor, bg_thread, plan, call, now>>

\* the list is looked up and the record built (datetime.now(), np.mean)
WorkerFetch(w) ==
    /\ workers[w].pc = "fetch"
    /\ workers' = [workers EXCEPT ![w].pc = "append", ![w].ref = "shared",
                                  ![w].rec = now + 1]
    /\ now' = now + 1
    /\ UNCHANGED <<G, trip, ml_predictor, bg_thread, plan, call, historical_data>>

\* .append(record) on the list looked up before
WorkerAppend(w) ==
    /\ workers[w].pc = "append"
    /\ historical_data' =
           IF workers[w].ref = "shared"
           THEN [historical_data EXCEPT ![8] =
                    Append(@, HistoryRecord(workers[w].rec, "weekday", SampleData))]
           ELSE historical_data
    /\ workers' = [workers EXCEPT ![w].pc = "len", ![w].ref = "none"]
    /\ UNCHANGED <<G, trip, ml_predictor, bg_thread, plan, call, now>>

\* if len(...) > 100
WorkerLen(w) ==
    /\ workers[w].pc = "len"
    /\ workers' = [workers EXCEPT ![w].pc = IF Len(historical_data[8]) > HistoryCap
                                            THEN "slice" ELSE "save"]
    /\ UNCHANGED <<G, trip, ml_predictor, bg_thread, plan, call, historical_data, now>>

\* ...[hour_key][-100:], a new list
WorkerSlice(w) ==
    /\ workers[w].pc = "slice"
    /\ workers' = [workers EXCEPT ![w].pc = "assign",
                                  ![w].tmp = IF Len(historical_data[8]) > HistoryCap
                                             THEN keep_last(historical_data[8], HistoryCap)
                                             ELSE historical_data[8]]
    /\ UNCHANGED <<G, trip, ml_predictor, bg_thread, plan, call, historical_data, now>>

\* historical_data["hourly_patterns"][hour_key] = the new list
WorkerAssign(w) ==
    /\ workers[w].pc = "assign"
    /\ historical_data' = [historical_data EXCEPT ![8] = workers[w].tmp]
    /\ workers' = [Others(w, workers) EXCEPT ![w].pc = "save", ![w].tmp = <<>>]
    /\ UNCHANGED <<G, trip, ml_predictor, bg_thread, plan, call, now>>

\* save_historical_data(historical_data)
WorkerSave(w) ==
    /\ workers[w].pc = "save"
    /\ workers' = [workers EXCEPT ![w].pc = "done"]
    /\ UNCHANGED <<G, trip, ml_predictor, bg_thread, plan, call, historical_data, now>>

WorkerStep ==
    \E w \in Workers :
        \/ WorkerEnter(w) \/ WorkerCheckKey(w) \/ WorkerCreate(w) \/ WorkerFetch(w)
        \/ WorkerAppend(w) \/ WorkerLen(w) \/ WorkerSlice(w) \/ WorkerAssign(w)
        \/ WorkerSave(w)

\* realistic_weight applied to one edge at two congestion values
EvalWeight ==
    /\ call.op = "none"
    /\ \E length \in Lengths \cup {NoValue}, road_type \in RoadTypes \cup {Absent},
          c1 \in CongestionValues \cup {NoValue}, c2 \in CongestionValues \cup {NoValue} :
          LET d1 == EdgeData(length, road_type, c1)
              d2 == EdgeData(length, road_type, c2)
          IN  call' = [op |-> "realistic_weight", d1 |-> d1, d2 |-> d2,
                       w1 |-> realistic_weight(1, 2, d1), w2 |-> realistic_weight(1, 2, d2)]
    /\ UNCHANGED <<G, trip, ml_predictor, bg_thread, plan>>
    /\ UNCHANGED hist_vars

\* get_realistic_congestion applied to one edge, the random draws included
Estimate ==
    /\ call.op = "none"
    /\ \E road_type \in RoadTypes \cup {Absent}, hour \in (0..23) \cup {NoHour},
          day_type \in DayTypes, u1 \in 0..JitterSteps, u2 \in 0..JitterSteps :
          call' = [op |-> "get_realistic_congestion", road_type |-> road_type,
                   hour |-> hour, day_type |-> day_type,
                   value |-> get_realistic_congestion(EdgeData(NoValue, road_type, NoValue),
                                                      hour, day_type, u1, u2)]
    /\ UNCHANGED <<G, trip, ml_predictor, bg_thread, plan>>
    /\ UNCHANGED hist_vars

\* predict_congestion called on the shared predictor for one edge
Predict ==
    /\ call.op = "none"
    /\ \E hour \in 0..23, day_type \in 0..1, road_type \in RoadTypes, length \in Lengths,
          fresh \in FreshModels(ml_predictor) :
          \E r \in {predict_congestion(ml_predictor, hour, day_type, road_type, length, fresh)} :
              /\ ml_predictor' = r.p
              /\ call' = [op |-> "predict_congestion", hour |-> hour, day_type |-> day_type,
                          road_type |-> road_type, before |-> ml_predictor,
                          training |-> bg_thread = "running", result |-> r]
    /\ UNCHANGED <<G, trip, bg_thread, plan>>
    /\ UNCHANGED hist_vars

\* the hour list find_best_time_in_window builds for one window that the
\* route accepts (start < end)
EvalHours ==
    /\ call.op = "none"
    /\ \E window_start \in 0..23, window_end \in 0..23 :
          /\ window_start < window_end
          /\ call' = [op |-> "hours_to_check", window_start |-> window_start,
                      window_end |-> window_end,
                      hours |-> hours_to_check(window_start, window_end)]
    /\ UNCHANGED <<G, trip, ml_predictor, bg_thread, plan>>
    /\ UNCHANGED hist_vars

\* calculate_time_score applied to one candidate
EvalScore ==
    /\ call.op = "none"
    /\ \E travel_time \in TravelTimes, congestion \in CongestionPercents, hour \in 0..23,
          max_travel_time \in MaxTravelTimes :
          call' = [op |-> "calculate_time_score", travel_time |-> travel_time,
                   congestion |-> congestion, hour |-> hour,
                   max_travel_time |-> max_travel_time,
                   score |-> calculate_time_score(travel_time, congestion, hour,
                                                  max_travel_time)]
    /\ UNCHANGED <<G, trip, ml_predictor, bg_thread, plan>>
    /\ UNCHANGED hist_vars

NextCost == EvalWeight

SpecCost == Init /\ [][NextCost]_vars

NextCongestion == Estimate

SpecCongestion == Init /\ [][NextCongestion]_vars

NextHours == EvalHours

SpecHours == Init /\ [][NextHours]_vars

NextScore == EvalScore

SpecScore == Init /\ [][NextScore]_vars

NextCache == PredictMany \/ BackgroundTrain

SpecCache == InitHistory /\ [][NextCache]_vars

NextTraining == PredictWhileTraining \/ TrainConstruct \/ TrainFit \/ TrainDump

SpecTraining == InitHistory /\ [][NextTraining]_vars

NextPredict == Predict \/ BackgroundTrain

SpecPredict == Init /\ [][NextPredict]_vars

NextRoute == Route \/ BackgroundTrain

SpecRoute == Init /\ [][NextRoute]_vars

SpecKeys == InitKeys /\ [][NextRoute]_vars

NextRepeat == Route \/ RouteAgain \/ CacheOverflow \/ BackgroundTrain

SpecRepeat == Init /\ [][NextRepeat]_vars

NextMulti == MultiRoute \/ BackgroundTrain

NextRequests == Route \/ MultiRoute \/ PlanSearch \/ PlanFinish \/ BackgroundTrain

SpecRequests == Init /\ [][NextRequests]_vars

NextHistory == UpdateHistorical

SpecHistory == InitHistory /\ [][NextHistory]_vars

NextHistoryThreads == UpdateHistorical \/ WorkerStep

SpecHistoryThreads == InitHistory /\ [][NextHistoryThreads]_vars

NextSimulate == Simulate

NextSimulateHistory == UpdateHistorical \/ Simulate

SpecSimulateHistory == InitHistory /\ [][NextSimulateHistory]_vars

SpecSimulate == Init /\ [][NextSimulate]_vars

NextPlan == PlanSearch \/ PlanFinish \/ BackgroundTrain

SpecPlan == Init /\ [][NextPlan]_vars

\* a plan whose predictor has its cache cleared by other requests' predictions
\* while the plan runs
NextPlanCache == PlanSearch \/ CacheOverflow \/ PlanFinish \/ BackgroundTrain

SpecPlanCache == Init /\ [][NextPlanCache]_vars

\* the steps of PlanFinish as they show in plan; PlanFinish is enabled whenever
\* a search has returned
PlanFinishStep == plan.pc = "searched" /\ plan' = [pc |-> "idle"]

\* the thread serving the request runs on to the end of smart_travel_planner
SpecPlanLive == Init /\ [][NextPlan]_vars /\ WF_plan(PlanFinishStep)

Next == Route \/ RouteAgain \/ CacheOverflow \/ MultiRoute \/ PlanSearch \/ PlanFinish
           \/ BackgroundTrain \/ EvalWeight \/ Estimate \/ Predict \/ PredictMany \/ EvalHours \/ EvalScore
           \/ UpdateHistorical \/ Simulate
           \/ TrainConstruct \/ TrainFit \/ TrainDump \/ PredictWhileTraining
           \/ WorkerStep

Spec == Init /\ [][Next]_vars

SpecMulti == Init /\ [][NextMulti]_vars

(***************************************************************************)
(* Properties.                                                             *)
(***************************************************************************)
PlanDone == call.op = "smart_travel_planner"

PlanSucceeded == PlanDone /\ call.result.success

TripPaths == SimplePaths(G, trip[1], trip[2])

\* the node sequence a list of segments runs through
RoutePath(route_details) ==
    <<route_details[1].from_node>>
        \o [i \in 1..Len(route_details) |-> route_details[i].to_node]

\* the categories of the edges a path is extracted from
PathCategories(path) ==
    {Get(G.adj[<<path[i], path[i + 1]>>].edges[0], "_road_type", "unknown") :
         i \in 1..(Len(path) - 1)}

\* what get_optimized_route returns for one candidate hour of the finished plan
Candidate(hour) ==
    get_optimized_route(G, ml_predictor, trip[1], trip[2], hour, call.constraints.day_type,
                        call.constraints.avoid_road_types, 1).route

\* C1: a successful plan made under a supplied max_travel_time has a route
\* total_time_min and a best-time travel_time_min that do not exceed it
C1_WithinSuppliedLimit ==
    (PlanSucceeded /\ Supplied(call.constraints.max_travel_time))
        => /\ call.result.recommended_route.total_time_min
                  <= call.constraints.max_travel_time
           /\ call.result.optimal_departure_time.travel_time_min
                  <= call.constraints.max_travel_time

\* C2: with no path from origin to destination get_ml_route returns NotFound
\* (empty route, time 0, no details) and raises nothing
C2_NoPathGivesNotFound ==
    (call.op = "get_ml_route" /\ TripPaths = {}) => call.result = NotFound

C2_Witness ==
    /\ call.op = "get_ml_route"
    /\ G = GraphSingle
    /\ trip = <<2, 3>>
    /\ call.hour = 8
    /\ call.result = NotFound

\* C3: on a graph whose only edge is A->B, the route from A to B has exactly
\* one segment, from A to B, and its total time is realistic_weight of that
\* edge as the request populated it
C3_SingleEdgeRoute ==
    \A e \in EdgeIds(G) :
        (call.op = "get_ml_route" /\ EdgeIds(G) = {e} /\ trip = <<e[1], e[2]>>)
            => /\ ~call.result.raised
               /\ Len(call.result.route_details) = 1
               /\ call.result.route_details[1].from_node = e[1]
               /\ call.result.route_details[1].to_node = e[2]
               /\ call.result.total_time_s
                      = realistic_weight(e[1], e[2], call.G_ml.adj[<<e[1], e[2]>>].edges[e[3]])

C3_Witness ==
    /\ call.op = "get_ml_route"
    /\ G = GraphSingle
    /\ trip = <<1, 2>>
    /\ call.hour = 8
    /\ Len(call.result.route_details) = 1
    /\ call.result.total_time_s > 0

\* C4: realistic_weight is positive, and does not decrease when the
\* congestion of the edge increases
C4_PositiveAndMonotone ==
    call.op = "realistic_weight"
        => /\ call.w1 > 0
           /\ call.w2 > 0
           /\ (Get(call.d1, "congestion", 500) <= Get(call.d2, "congestion", 500)
                   => call.w1 <= call.w2)

C4_Witness ==
    /\ call.op = "realistic_weight"
    /\ Get(call.d1, "congestion", 500) = 299
    /\ Get(call.d2, "congestion", 500) = 300
    /\ call.w1 < call.w2

\* C5: get_realistic_congestion returns a value in [0.05, 0.95] for every
\* category, hour, day type and pair of random draws
C5_CongestionInRange ==
    call.op = "get_realistic_congestion" => (50 <= call.value /\ call.value <= 950)

C5_Witness ==
    /\ call.op = "get_realistic_congestion"
    /\ call.road_type = "service"
    /\ call.hour = 18
    /\ call.value = 950

\* C6: when every candidate hour of the window has no route or a travel time
\* above the supplied max_travel_time, the plan evaluates both window bounds
\* and ends in a structured failure (success false, with a message)
C6_AllInfeasibleFails ==
    (/\ PlanDone
     /\ Supplied(call.constraints.max_travel_time)
     /\ \A hour \in call.constraints.time_window_start..call.constraints.time_window_end :
            \/ Candidate(hour) = None
            \/ Candidate(hour).total_time_min > call.constraints.max_travel_time)
        => /\ \E i \in 1..Len(call.checked) :
                  call.checked[i] = call.constraints.time_window_start
           /\ \E i \in 1..Len(call.checked) :
                  call.checked[i] = call.constraints.time_window_end
           /\ ~call.result.success
           /\ Len(call.result.message) > 0

\* the only path of the trip runs over an edge of a listed category
OnlyPathIsAvoided ==
    /\ Cardinality(TripPaths) = 1
    /\ \A path \in TripPaths :
           /\ Len(path) > 1
           /\ PathCategories(path) \cap call.constraints.avoid_road_types # {}

\* C7 as stated, for plans without a time limit: when the only path uses an
\* edge of a listed category the plan succeeds with that path, nothing is
\* reported as avoided and no "Successfully Avoided" line is emitted
C7_NothingReportedAvoided ==
    (PlanDone /\ call.constraints.max_travel_time = NoLimit /\ OnlyPathIsAvoided)
        => /\ call.result.success
           /\ RoutePath(call.result.recommended_route.route_details) \in TripPaths
           /\ call.result.recommendations.actually_avoided = {}
           /\ \A i \in 1..Len(call.result.recommendations.recommendations) :
                  call.result.recommendations.recommendations[i] # "Successfully Avoided"

\* some candidate hour passes the travel-time filter of the search
SomeHourWithinLimit ==
    \E i \in 1..Len(call.checked) :
        /\ Candidate(call.checked[i]) # None
        /\ \/ call.constraints.max_travel_time = NoLimit
           \/ Candidate(call.checked[i]).total_time_min <= call.constraints.max_travel_time

\* C7 amended: when the only path uses an edge of a listed category and some
\* candidate hour is within the time limit, the plan succeeds with that path;
\* the categories reported as avoided are the listed ones the route does not
\* use, and "Successfully Avoided" is emitted exactly when there is one
C7_AvoidedAreListedUnused ==
    (PlanDone /\ OnlyPathIsAvoided /\ SomeHourWithinLimit)
        => /\ call.result.success
           /\ RoutePath(call.result.recommended_route.route_details) \in TripPaths
           /\ call.result.recommendations.actually_avoided
                  = call.constraints.avoid_road_types
                        \ PathCategories(RoutePath(call.result.recommended_route.route_details))
           /\ (\E i \in 1..Len(call.result.recommendations.recommendations) :
                   call.result.recommendations.recommendations[i] = "Successfully Avoided")
                  <=> ~(call.constraints.avoid_road_types
                            \subseteq PathCategories(
                                RoutePath(call.result.recommended_route.route_details)))

C7_Witness ==
    /\ PlanSucceeded
    /\ OnlyPathIsAvoided
    /\ G = GraphService
    /\ call.constraints.avoid_road_types = {"service"}
    /\ call.result.recommendations.actually_avoided = {}

\* the cost of each segment of the returned route at the congestion predicted
\* for the chosen hour, times `factor` on the edges of a listed category
RECURSIVE SegmentCosts(_, _, _)
SegmentCosts(route_details, i, factor) ==
    IF i > Len(route_details) THEN 0
    ELSE LET seg == route_details[i]
             data == G.adj[<<seg.from_node, seg.to_node>>].edges[0]
             key == <<call.result.optimal_departure_time.hour,
                      day_type_numeric(call.constraints.day_type),
                      Get(data, "_road_type", "unknown"), Get(data, "length", 100)>>
             d == ("congestion" :> ml_predictor.prediction_cache[key]) @@ data
             w == realistic_weight(seg.from_node, seg.to_node, d)
         IN  (IF Get(data, "_road_type", "unknown") \in call.constraints.avoid_road_types
              THEN w * factor ELSE w)
                 + SegmentCosts(route_details, i + 1, factor)

RouteUsesAvoided ==
    /\ PlanSucceeded
    /\ DOMAIN call.result.recommended_route.road_types_used
           \cap call.constraints.avoid_road_types # {}

\* C8 as stated: the total_time_min reported for a route over an edge of a
\* listed category carries the x1000 penalty of that edge
C8_ReportedCostPenalised ==
    RouteUsesAvoided
        => call.result.recommended_route.total_time_min
               = SegmentCosts(call.result.recommended_route.route_details, 1, 1000)

\* C8 amended: the total_time_min reported for a route is the sum of
\* realistic_weight over the route's edges, without the penalty, also when
\* the route runs over a listed category
C8_ReportedCostUnpenalised ==
    PlanSucceeded
        => call.result.recommended_route.total_time_min
               = SegmentCosts(call.result.recommended_route.route_details, 1, 1)

C8_Witness ==
    /\ RouteUsesAvoided
    /\ call.result.recommended_route.total_time_min
           < SegmentCosts(call.result.recommended_route.route_details, 1, 1000)

\* C9: when there is exactly one path from origin to destination, all three
\* labels are returned and their coordinate sequences are identical
C9_OnePathThreeLabels ==
    (/\ call.op = "get_multiple_routes"
     /\ call.populated
     /\ call.faults = {}
     /\ Cardinality(TripPaths) = 1)
        => /\ DOMAIN call.result = Labels
           /\ \A a \in Labels, b \in Labels : call.result[a].route = call.result[b].route

C9_Witness ==
    /\ call.op = "get_multiple_routes"
    /\ call.faults = {}
    /\ G = GraphService
    /\ trip = <<1, 4>>
    /\ DOMAIN call.result = Labels
    /\ Len(call.result["shortest"].route) = 4

\* C10: a failure while one label is computed leaves out that label only; the
\* labels that did not fail and have a path are returned
C10_FailureOmitsOnlyThatLabel ==
    (call.op = "get_multiple_routes" /\ call.populated)
        => /\ DOMAIN call.result \cap call.faults = {}
           /\ TripPaths # {} => DOMAIN call.result = Labels \ call.faults

C10_Witness ==
    /\ call.op = "get_multiple_routes"
    /\ call.faults = {"shortest"}
    /\ DOMAIN call.result = {"fastest", "least_congested"}
    /\ call.result["fastest"].total_time_min > 0

\* C11: a /route request repeated with the same origin, destination, hour and
\* day type returns the result of the first one, whatever happened to the
\* prediction cache and the background training between the two
C11_RepeatedRouteIdentical ==
    call.op = "get_ml_route again" => call.result = call.first

\* C12: after any sequence of calls of update_historical_data made one after
\* the other, the list of an hour holds at most 100 records, and they are the
\* most recently appended ones, in the order they were appended
C12_HistoryKeepsLast100 ==
    \A hour \in DOMAIN historical_data :
        LET list == historical_data[hour]
        IN  /\ Len(list) <= HistoryCap
            /\ Len(list) = Min(now, HistoryCap)
            /\ \A i \in 1..Len(list) : list[i].timestamp = now - Len(list) + i

C12_Witness ==
    /\ now = MaxAppends
    /\ 8 \in DOMAIN historical_data
    /\ Len(historical_data[8]) = HistoryCap
    /\ historical_data[8][1].timestamp = MaxAppends - HistoryCap + 1

\* C15: once concurrent calls of update_historical_data for one hour have all
\* returned, the record of each is in the list, unless the list is full of
\* records appended after it
C15_NoRecordLost ==
    (\A w \in Workers : workers[w].pc = "done")
        => \A w \in Workers :
               \/ \E i \in 1..Len(historical_data[8]) :
                      historical_data[8][i].timestamp = workers[w].rec
               \/ /\ Len(historical_data[8]) = HistoryCap
                  /\ \A i \in 1..Len(historical_data[8]) :
                         historical_data[8][i].timestamp > workers[w].rec

\* C16: enhanced_simulate_congestion with an hour returns the annotated graph
\* and raises nothing, also when the history file cannot be written
C16_SimulateSurvivesStoreFailure ==
    (call.op = "enhanced_simulate_congestion" /\ call.hour # NoHour)
        => /\ ~call.raised
           /\ \A e \in EdgeIds(call.G) :
                  "congestion" \in DOMAIN call.G.adj[<<e[1], e[2]>>].edges[e[3]]

\* C13: get_ml_route, get_multiple_routes, each evaluation of an hour by the
\* planner and the recomputation of its route leave the shared graph G as it
\* was: congestion and avoid_weight are written to the copy only
C13_BaseGraphUnchanged == [][G' = G]_vars

C13_Witness ==
    /\ call.op = "get_multiple_routes"
    /\ call.populated
    /\ G = GraphService
    /\ call.G_ml.id # G.id
    /\ \A e \in EdgeIds(G) :
           /\ "congestion" \notin DOMAIN G.adj[<<e[1], e[2]>>].edges[e[3]]
           /\ "congestion" \in DOMAIN call.G_ml.adj[<<e[1], e[2]>>].edges[e[3]]

\* C14: a predict call made while the predictor is untrained or while the
\* background training is still running starts no training run of its own:
\* it leaves the predictor untrained and the model file as it was
C14_UntrainedPredictStartsNoTraining ==
    (call.op = "predict_congestion" /\ ~call.before.is_trained /\ call.training)
        => /\ call.result.p.stored_model = call.before.stored_model
           /\ call.result.p.model = call.before.model
           /\ ~call.result.p.is_trained

\* C17: every failure of the plan has success false and a message made of
\* one fixed reason, with no part taken from the text of an exception
C17_FailureMessageIsFixed ==
    (PlanDone /\ ~call.result.success) => Len(call.result.message) = 1

\* C18: for every window with 0 <= start < end <= 23 the hours evaluated are
\* the even hours of [start, end] together with start and end, each once,
\* in ascending order
C18_HoursEvenPlusBounds ==
    call.op = "hours_to_check"
        => /\ \A i \in 1..(Len(call.hours) - 1) : call.hours[i] < call.hours[i + 1]
           /\ {call.hours[i] : i \in 1..Len(call.hours)}
                  = {h \in call.window_start..call.window_end : h % 2 = 0}
                        \cup {call.window_start, call.window_end}

\* a window with two odd bounds: both are added around the even hours
C18_Witness ==
    /\ call.op = "hours_to_check"
    /\ call.window_start = 5
    /\ call.window_end = 9
    /\ call.hours = <<5, 6, 8, 9>>

\* the time-of-day penalty and the bonus as the claim words them, hundredths
C19_Penalty ==
    IF call.hour <= 5 \/ call.hour >= 23 THEN 2000
    ELSE IF call.hour <= 7 \/ call.hour >= 21 THEN 1000
    ELSE 0

\* 100/(time_min+1) - 0.5*congestion_pct - penalty, before the bonus
C19_Base ==
    (600000000 \div (call.travel_time + 60000)) - 5 * call.congestion - C19_Penalty

\* bonus 30 when a max_travel_time was supplied and met
C19_BonusSupplied ==
    IF Supplied(call.max_travel_time) /\ call.travel_time <= call.max_travel_time
    THEN 3000 ELSE 0

\* bonus 30 when a non-zero max_travel_time was supplied and met
C19_BonusNonZero ==
    IF Supplied(call.max_travel_time) /\ call.max_travel_time # 0
       /\ call.travel_time <= call.max_travel_time
    THEN 3000 ELSE 0

\* C19 as stated: the score of a candidate is the expression itself, hence
\* negative whenever the expression is negative
C19_ScoreIsExpression ==
    call.op = "calculate_time_score" => call.score = C19_Base + C19_BonusSupplied

\* C19 amended: the score is the expression floored at zero, the bonus being
\* given for a non-zero limit that is met; it is never negative
C19_ScoreIsExpressionFlooredAtZero ==
    call.op = "calculate_time_score"
        => /\ call.score = Max(0, C19_Base + C19_BonusNonZero)
           /\ call.score >= 0

\* a candidate whose expression is negative
C19_Witness ==
    /\ call.op = "calculate_time_score"
    /\ C19_Base + C19_BonusNonZero < 0
    /\ call.score = 0

\* C20: the best departure of a finished plan is a surviving candidate (one
\* the search scored) whose score is the maximum over the survivors, and the
\* earliest-checked one among those that share the maximum
C20_BestIsFirstMaximum ==
    (PlanDone /\ Len(call.survivors) > 0)
        => /\ call.best_time # None
           /\ \E i \in 1..Len(call.survivors) :
                  /\ call.survivors[i].hour = call.best_time.hour
                  /\ call.survivors[i].score = call.best_time.score
                  /\ \A j \in 1..Len(call.survivors) :
                         call.survivors[j].score <= call.best_time.score
                  /\ \A j \in 1..(i - 1) :
                         call.survivors[j].score < call.best_time.score
           /\ call.result.success
                  => call.result.optimal_departure_time = call.best_time

\* two survivors share the maximum and the earlier hour is returned
C20_Witness ==
    /\ PlanSucceeded
    /\ Len(call.survivors) > 1
    /\ call.survivors[1].hour = call.result.optimal_departure_time.hour
    /\ \E j \in 2..Len(call.survivors) :
           call.survivors[j].score = call.result.optimal_departure_time.score

\* C21: when a predict call returns the cache holds at most 10,000 entries;
\* the insertion that would take it past 10,000 leaves it empty; a call
\* whose key is in the cache returns the stored value and leaves the
\* predictor as it was
C21_CacheBoundedAndClearedWhole ==
    /\ CacheLen(ml_predictor) <= CacheCap
    /\ call.op = "predict_congestion many"
           => /\ (~call.cached /\ call.size_before = CacheCap)
                     => CacheLen(ml_predictor) = 0
              /\ call.cached => (call.value = call.stored /\ call.unchanged)

\* the call that finds 10,000 entries and inserts one more
C21_Witness ==
    /\ call.op = "predict_congestion many"
    /\ ~call.cached
    /\ call.size_before = CacheCap
    /\ CacheLen(ml_predictor) = 0

\* the lowest key among the parallel edges of a pair
LowestKey(u, v) == SetMin(DOMAIN G.adj[<<u, v>>].edges)

\* C22: for a trip whose two nodes are joined by an edge, the route is
\* reconstructed whatever keys the edges of the pair carry, and its segment
\* is that of the lowest-keyed edge of the pair
C22_LowestKeyedEdgeReported ==
    (/\ call.op = "get_ml_route"
     /\ call.hour # NoHour
     /\ HasEdge(G, trip[1], trip[2]))
        => /\ Len(call.result.route_details) = 1
           /\ call.result.route_details[1].length
                  = G.adj[<<trip[1], trip[2]>>].edges[LowestKey(trip[1], trip[2])]["length"]
           /\ call.result.route_details[1].road_type
                  = G.adj[<<trip[1], trip[2]>>].edges[LowestKey(trip[1], trip[2])]["_road_type"]

\* C23: an edge of a category outside the enumeration is costed with the
\* intersection delay constant 40 s: with length 0 and the default
\* congestion 0.5 its cost is 40 s * (0.5 + 0.5), in ms
C23_UnknownCategoryDelayIs40 ==
    (/\ call.op = "realistic_weight"
     /\ call.d1 = EdgeData(0, UnknownCategory, NoValue))
        => call.w1 = 40000

\* a step that is one call of enhanced_simulate_congestion
SimulateStep == call.op = "none" /\ call'.op = "enhanced_simulate_congestion"

\* the records of the store, whatever the hour
AllRecords(hd) == UNION {{hd[h][i] : i \in 1..Len(hd[h])} : h \in DOMAIN hd}

\* C24 as stated: every simulation, also one with the hour absent, appends
\* one record, stamped with the time of the call, to the store
C24_EverySimulationAppends ==
    [][SimulateStep
          => \E r \in AllRecords(historical_data') \ AllRecords(historical_data) :
                 r.timestamp = now']_vars

\* C24 amended: a simulation with an hour appends one record to the list of
\* that hour (the oldest one leaving a full list), leaves the lists of the
\* other hours alone and writes the store; a simulation with the hour absent
\* leaves the store as it was and writes nothing
C24_SimulationWithHourAppends ==
    [][SimulateStep
          => IF call'.hour = NoHour
             THEN historical_data' = historical_data /\ ~call'.raised
             ELSE LET old == Get(historical_data, call'.hour, <<>>)
                      new == historical_data'[call'.hour]
                  IN  /\ DOMAIN historical_data' = DOMAIN historical_data \cup {call'.hour}
                      /\ \A h \in DOMAIN historical_data \ {call'.hour} :
                             historical_data'[h] = historical_data[h]
                      /\ new[Len(new)].timestamp = now'
                      /\ new[Len(new)].day_type = call'.day_type
                      /\ SubSeq(new, 1, Len(new) - 1)
                             = IF Len(old) < HistoryCap THEN old
                               ELSE SubSeq(old, 2, Len(old))
                      /\ call'.store_ok => ~call'.raised]_vars

\* a simulation with the hour absent after which the store still holds the
\* records it held
C24_Witness ==
    /\ call.op = "enhanced_simulate_congestion"
    /\ call.hour = NoHour
    /\ HistoryHours \subseteq DOMAIN historical_data
    /\ \A h \in HistoryHours :
           /\ Len(historical_data[h]) = HistoryCap
           /\ historical_data[h][HistoryCap].timestamp = now - 1

\* C25: when origin and destination are the same node, computeRoute returns
\* an empty segment list with zero total time, and so does the optimizer's
\* router for every candidate hour it evaluates (no error, no missing result)
C25_SingleNodeRouteIsEmpty ==
    trip[1] = trip[2]
        => /\ call.op = "get_ml_route"
                  => /\ ~call.result.raised
                     /\ call.result.route_details = <<>>
                     /\ call.result.total_time_s = 0
           /\ PlanDone
                  => \A i \in 1..Len(call.checked) :
                         /\ Candidate(call.checked[i]) # None
                         /\ Candidate(call.checked[i]).route_details = <<>>
                         /\ Candidate(call.checked[i]).total_time_min = 0

\* the candidate hours of a window of integer bounds
CandidateHours(window_start, window_end) ==
    {h \in window_start..window_end : h % 2 = 0} \cup {window_start, window_end}

\* a finished plan with a result, after at most one shortest-path search per
\* candidate hour and one more for the chosen hour
PlanEndedWithinSearchBudget ==
    /\ PlanDone
    /\ call.result.success \in BOOLEAN
    /\ (IsInt(call.constraints.time_window_start) /\ IsInt(call.constraints.time_window_end))
           => call.searches
                  <= Cardinality(CandidateHours(call.constraints.time_window_start,
                                                call.constraints.time_window_end))
                         + (IF call.best_time = None THEN 0 ELSE 1)

\* C26: a plan that has been started ends with a success or a failure
\* result, having run the shortest-path search at most once per candidate
\* hour and once more for the chosen hour
C26_PlanTerminatesWithinSearchBudget ==
    (plan.pc = "searched") ~> PlanEndedWithinSearchBudget

\* a plan that ended after one search per candidate hour and one more
C26_Witness ==
    /\ PlanSucceeded
    /\ call.constraints.time_window_start = 5
    /\ call.searches = 4


\* C27: in every get_multiple_routes result that holds 'fastest', the time
\* reported for 'fastest' is at most the time reported for 'shortest' and for
\* 'least_congested' of the same request
C27_FastestIsNoSlower ==
    (call.op = "get_multiple_routes" /\ "fastest" \in DOMAIN call.result)
        => \A label \in DOMAIN call.result :
               call.result["fastest"].total_time_min <= call.result[label].total_time_min

\* C28: a successful plan holds a recommended_route, and its total_time_min is
\* the travel_time_min reported for the best hour, although the route is
\* computed again after the search
C28_RecommendedRouteMatchesBestTime ==
    PlanSucceeded
        => /\ call.result.recommended_route # None
           /\ call.result.recommended_route.total_time_min
                  = call.result.optimal_departure_time.travel_time_min

\* C29: however the predict calls of the request threads interleave with the
\* background training and with a model load, is_trained is true only while
\* self.model is a fitted forest, and no predict call evaluates a forest that
\* has not been fitted
C29_TrainedModelIsFitted ==
    /\ ml_predictor.is_trained => ml_predictor.model \notin {0, Unfitted}
    /\ call.op = "predict_congestion while training" => ~call.raised

\* C30: a max_travel_time of 0 is enforced like any other limit: a candidate
\* hour with a travel time above 0 is skipped and so is never the best hour,
\* the plan fails unless some route takes no time, and no candidate above the
\* limit is scored with the bonus of 30
C30_ZeroLimitIsEnforced ==
    (PlanDone /\ call.constraints.max_travel_time = 0)
        => /\ call.best_time # None => call.best_time.travel_time_min <= 0
           /\ call.result.success
                  => call.result.optimal_departure_time.travel_time_min <= 0
           /\ (call.best_time # None /\ call.best_time.travel_time_min > 0)
                  => call.best_time.score
                         = calculate_time_score(call.best_time.travel_time_min,
                                                call.best_time.congestion_percent,
                                                call.best_time.hour, NoLimit)

==============================================================================
